---------------------------- MODULE Spec2Model ----------------------------
(***************************************************************************)
(* Model of the QA results analyzer (src/agent/qa_analyzer.py).            *)
(*                                                                         *)
(* Cell text is a TLA+ string.  TLA+ string literals are ASCII, so the     *)
(* four glyphs of the pattern tables are written with ASCII stand-ins that *)
(* are, like the glyphs, neither word characters nor whitespace:           *)
(*     "+" for U+2713,  "^" for U+2714,  "%" for U+2717,  "#" for U+2718.  *)
(* The letter U+0131 (dotless i) is written "!", which is counted among    *)
(* the word characters as the letter is.                                   *)
(*                                                                         *)
(* The specifications share the variables:                                 *)
(*     Spec         one cell value run through _classify_value             *)
(*     SpecLetters  one column letter run through column_letter_to_index   *)
(*     SpecSheet    one sheet run through analyze_sheet                    *)
(*     SpecDetect   one column run through identify_result_columns         *)
(*     SpecScenario the ten-row sheet of the end-to-end scenario run       *)
(*                  through analyze_sheet, its rows in every order         *)
(*     SpecWorkbook one workbook run through analyze_all_sheets and        *)
(*                  save_to_csv                                            *)
(*     SpecHistory  the files of earlier runs loaded by ProgressTracker    *)
(*                  and its queries called, in any order and number        *)
(*     SpecSaves    runs saving their snapshots into one directory with    *)
(*                  save_to_csv                                            *)
(***************************************************************************)
EXTENDS Integers, Sequences, FiniteSets, TLC

VARIABLES
    value,           \* the cell value handed to _classify_value
    classification,  \* what _classify_value returned, "unset" before the call
    letter,          \* the argument of column_letter_to_index
    col_idx,         \* what column_letter_to_index returned, -1 before the call
    df,              \* what read_excel yields for the sheet analyze_sheet is given
    sheet_config,    \* the configuration entry of that sheet, if any
    sheet_result,    \* the dict analyze_sheet returned, NotAnalyzed before the call
    result_columns,  \* the list identify_result_columns returned, empty before the call
    sheet_names,     \* self.sheet_names: the sheets of the loaded workbook, in order
    workbook,        \* what read_excel yields for each sheet of the workbook
    workbook_config, \* self.sheet_config: None, or the mapping in insertion order
    sheets_to_analyze, \* the list analyze_all_sheets loops over
    position,        \* how many sheets of that list the loop has analysed
    analysis_results, \* self.analysis_results: sheet name -> dict of analyze_sheet
    csv_data,        \* the rows save_to_csv wrote, empty before the call
    directory,       \* the qa_results_*.csv files of csv_directory, by file name
    csv_files,       \* self.csv_files of the tracker
    combined_data,   \* self.combined_data of the tracker, NoData for None
    query,           \* the tracker method called last, "" before any
    returned,        \* what that method returned or raised
    pc               \* "ready" before the call under study, "done" after it; a
                     \* workbook run passes through "loop" and "analyzed", the
                     \* tracker through "loaded"

\* the variables of one workbook run
workbook_vars == <<sheet_names, workbook, workbook_config, sheets_to_analyze, position,
                   analysis_results, csv_data>>

\* the variables of the tracker
history_vars == <<directory, csv_files, combined_data, query, returned>>

vars == <<value, classification, letter, col_idx, df, sheet_config, sheet_result,
          result_columns, workbook_vars, history_vars, pc>>

-----------------------------------------------------------------------------
(* Characters and the str methods _classify_value uses *)

CHECK_MARK == "+"
HEAVY_CHECK_MARK == "^"
BALLOT_X == "%"
HEAVY_BALLOT_X == "#"

\* a lower-case letter that is not the lower case of its upper case: 'I'.lower() is
\* 'i', and re.IGNORECASE lets the 'i' of a pattern match it
DOTLESS_I == "!"

UPPER == "ABCDEFGHIJKLMNOPQRSTUVWXYZ"
LOWER == "abcdefghijklmnopqrstuvwxyz"
DIGITS == "0123456789"

Chr(s, i) == SubSeq(s, i, i)

Rest(s) == SubSeq(s, 2, Len(s))

CharsOf(s) == {Chr(s, i) : i \in 1..Len(s)}

\* \s of the re module, and what str.strip() removes
IsSpace(c) == c \in {" ", "\t", "\n"}

\* \w of the re module: letters, digits and the underscore
WORD_CHARS ==
    CharsOf(UPPER) \cup CharsOf(LOWER) \cup CharsOf(DIGITS) \cup {"_", DOTLESS_I}

IsWordChar(c) == c \in WORD_CHARS

\* the lower-case letter of each upper-case letter, and the reverse
LOWER_OF == [c \in CharsOf(UPPER) |-> Chr(LOWER, CHOOSE i \in 1..Len(UPPER) : Chr(UPPER, i) = c)]
UPPER_OF == [c \in CharsOf(LOWER) |-> Chr(UPPER, CHOOSE i \in 1..Len(LOWER) : Chr(LOWER, i) = c)]

\* ord(c) - ord('A') of each upper-case letter
ORD_MINUS_A == [c \in CharsOf(UPPER) |-> (CHOOSE i \in 1..Len(UPPER) : Chr(UPPER, i) = c) - 1]

LowerChar(c) == IF c \in DOMAIN LOWER_OF THEN LOWER_OF[c] ELSE c

RECURSIVE lower(_)
lower(s) == IF s = "" THEN "" ELSE LowerChar(Chr(s, 1)) \o lower(Rest(s))

RECURSIVE lstrip(_)
lstrip(s) == IF s # "" /\ IsSpace(Chr(s, 1)) THEN lstrip(Rest(s)) ELSE s

RECURSIVE rstrip(_)
rstrip(s) ==
    IF s # "" /\ IsSpace(Chr(s, Len(s))) THEN rstrip(SubSeq(s, 1, Len(s) - 1)) ELSE s

strip(s) == rstrip(lstrip(s))

\* re.sub(r'\s+', ' ', s): every maximal run of whitespace becomes one space
RECURSIVE re_sub_ws(_)
re_sub_ws(s) ==
    IF s = "" THEN ""
    ELSE IF IsSpace(Chr(s, 1)) THEN " " \o re_sub_ws(lstrip(s))
    ELSE Chr(s, 1) \o re_sub_ws(Rest(s))

\* needle in s
Contains(needle, s) ==
    \E i \in 0..(Len(s) - Len(needle)) : SubSeq(s, i + 1, i + Len(needle)) = needle

\* str(n) of an int
RECURSIVE DigitsOf(_)
DigitsOf(n) ==
    IF n < 10 THEN Chr(DIGITS, n + 1)
    ELSE DigitsOf(n \div 10) \o Chr(DIGITS, (n % 10) + 1)

IntStr(n) == IF n < 0 THEN "-" \o DigitsOf(0 - n) ELSE DigitsOf(n)

-----------------------------------------------------------------------------
(* Cell values: a text cell, an int cell, or a missing cell (NaN) *)

Text(s) == [kind |-> "str", text |-> s, num |-> 0]
IntCell(n) == [kind |-> "int", text |-> "", num |-> n]
NaN == [kind |-> "nan", text |-> "", num |-> 0]

\* pd.isna(value)
isna(v) == v.kind = "nan"

\* str(value)
str(v) == IF v.kind = "int" THEN IntStr(v.num) ELSE IF v.kind = "nan" THEN "nan" ELSE v.text

-----------------------------------------------------------------------------
(* The pattern tables.  Every pattern of the source is \b<body>\b with a   *)
(* body that denotes finitely many strings; a pattern is the set of them.  *)

PASS_PATTERNS == <<
    {"pass", "passed"},
    {"success", "successful"},
    {"ok"},
    {"accept", "accepted"},
    {"approve", "approved"},
    {"complete", "completed"},
    {"valid"},
    {CHECK_MARK},
    {HEAVY_CHECK_MARK} >>

FAIL_PATTERNS == <<
    {"fail", "failed", "failure"},
    {"error"},
    {"reject", "rejected"},
    {"block", "blocked"},
    {"invalid"},
    {"incomplete"},
    {"pending"},
    {"in progress"},
    {BALLOT_X},
    {HEAVY_BALLOT_X},
    {"todo", "to do"},
    {"not started", "not done", "not completed"} >>

\* r'\bn[/\-\s]?a\b'
NA_REGEX == {"na"} \cup {"n" \o c \o "a" : c \in {"/", "-", " ", "\t", "\n"}}

\* the list of the exact-match test
NA_EXACT == {"n/a", "na", "n-a", "n a", "not available", "not applicable"}

\* patterns written without \b
WordBoundary_unanchored(s, i) == TRUE

\* \b at offset i of s (between s[i] and s[i+1], 0 <= i <= Len(s))
WordBoundary(s, i) ==
    LET before == i >= 1 /\ IsWordChar(Chr(s, i))
        after == i < Len(s) /\ IsWordChar(Chr(s, i + 1))
    IN before # after

\* the text as a search under re.IGNORECASE compares it with a lower-case pattern
RECURSIVE IgnoreCase(_)
IgnoreCase(s) ==
    IF s = "" THEN ""
    ELSE (IF Chr(s, 1) = DOTLESS_I THEN "i" ELSE LowerChar(Chr(s, 1))) \o IgnoreCase(Rest(s))

\* the pattern \b<lit>\b matches s at offset i; folded is s with its case folded
\* when the search is made under re.IGNORECASE, and s itself otherwise
MatchAt(lit, s, folded, i) ==
    /\ SubSeq(folded, i + 1, i + Len(lit)) = lit
    /\ WordBoundary(s, i)
    /\ WordBoundary(s, i + Len(lit))

\* re.search(pattern, s, flags) is not None; ic is re.IGNORECASE.  The literals of
\* the tables are lower case, so folding the case of s compares as IGNORECASE does.
re_search(pattern, s, ic) ==
    LET folded == IF ic THEN IgnoreCase(s) ELSE s
    IN \E lit \in pattern : \E i \in 0..(Len(s) - Len(lit)) : MatchAt(lit, s, folded, i)

\* the for loop over a pattern table: TRUE when some pattern, tried in order, matches
RECURSIVE AnyPatternMatches(_, _, _)
AnyPatternMatches(patterns, k, s) ==
    IF k > Len(patterns) THEN FALSE
    ELSE IF re_search(patterns[k], s, TRUE) THEN TRUE
    ELSE AnyPatternMatches(patterns, k + 1, s)

\* a normalisation that forgets .lower()
Normalize_keeps_case(value_str) == strip(re_sub_ws(value_str))

\* value_lower of _classify_value, from value_str
Normalize(value_str) == lower(strip(re_sub_ws(value_str)))

\* the three not-available tests
IsNotAvailable(value_lower) ==
    \/ value_lower \in NA_EXACT
    \/ Contains("n/a", value_lower)
    \/ re_search(NA_REGEX, value_lower, FALSE)

\* a chain of tests that ends without a return statement
MatchClass_no_default(value_lower) ==
    IF IsNotAvailable(value_lower) THEN "not_available"
    ELSE IF AnyPatternMatches(PASS_PATTERNS, 1, value_lower) THEN "pass"
    ELSE IF AnyPatternMatches(FAIL_PATTERNS, 1, value_lower) THEN "fail"
    ELSE "None"

\* a chain of tests that tries the pass and fail tables before the not-available tests
MatchClass_na_last(value_lower) ==
    IF AnyPatternMatches(PASS_PATTERNS, 1, value_lower) THEN "pass"
    ELSE IF AnyPatternMatches(FAIL_PATTERNS, 1, value_lower) THEN "fail"
    ELSE IF IsNotAvailable(value_lower) THEN "not_available"
    ELSE "invalid"

\* the chain of tests on value_lower: not-available, then pass, then fail
MatchClass(value_lower) ==
    IF IsNotAvailable(value_lower) THEN "not_available"
    ELSE IF AnyPatternMatches(PASS_PATTERNS, 1, value_lower) THEN "pass"
    ELSE IF AnyPatternMatches(FAIL_PATTERNS, 1, value_lower) THEN "fail"
    ELSE "invalid"

_classify_value(v) ==
    IF isna(v) \/ (v.kind = "str" /\ v.text = "") THEN "invalid"
    ELSE LET value_str == strip(str(v))
         IN IF value_str = "" THEN "invalid"
            ELSE MatchClass(Normalize(value_str))

-----------------------------------------------------------------------------
(* column_letter_to_index *)

\* str.upper() on one character
UpperChar(c) ==
    IF c = DOTLESS_I THEN "I" ELSE IF c \in DOMAIN UPPER_OF THEN UPPER_OF[c] ELSE c

\* the for loop: result = result * 26 + (ord(char) - ord('A') + 1), from position k on
RECURSIVE LetterLoop(_, _, _)
LetterLoop(s, k, result) ==
    IF k > Len(s) THEN result
    ELSE LetterLoop(s, k + 1, result * 26 + (ORD_MINUS_A[UpperChar(Chr(s, k))] + 1))

\* a conversion that forgets the final - 1
column_letter_to_index_one_based(s) == LetterLoop(s, 1, 0)

column_letter_to_index(s) == LetterLoop(s, 1, 0) - 1

-----------------------------------------------------------------------------
(* Inputs *)

\* longest cell text, counted in pieces of Pieces
MaxPieces == 3

\* longest column letter string
MaxLetters == 2

Pieces == {"pass", "fail", "x", " ", "\n", "_", CHECK_MARK,
           "n/a", "na", "n-a", "n a", "not available"}

RECURSIVE Composed(_)
Composed(k) ==
    IF k = 0 THEN {""}
    ELSE LET shorter == Composed(k - 1)
         IN shorter \cup {s \o p : s \in shorter, p \in Pieces}

\* the values the documentation and the pattern tables name, and near misses of them
ExampleTexts ==
    {"Pass", "PASSED", " pass ", "Failed", "Rejected", "To Do",
     "N/A", "n-a", "not applicable", "", "   ", "random comment",
     "passenger seat test", "banana", "man/age", "reason/action", "plan a",
     CHECK_MARK, HEAVY_CHECK_MARK, BALLOT_X, HEAVY_BALLOT_X,
     "a" \o CHECK_MARK \o "b", "a" \o BALLOT_X \o "b",
     "fail", "failed", "failure", "error", "rejected", "blocked", "invalid",
     "incomplete", "pending", "in progress", "to do", "todo", "not started",
     "not done", "not completed",
     "passed", "success", "successful", "ok", "accepted", "approved",
     "completed", "valid",
     "test not available today", "x not applicable", "see n a here",
     "pass1", "Pass_1", "failing", "bypass", "N\n\nA", "  PASS\t\n",
     "pass fail", "fail pass", "pass n/a", "n/a fail", "pass fail n/a", "Not  Done", "Ok", "x Ok",
     "not applicable x", "pass not applicable",
     "not ava" \o DOTLESS_I \o "lable", "fa" \o DOTLESS_I \o "led"}

IntCells == {0 - 1, 0, 7, 10, 42}

CellValues ==
    {Text(s) : s \in Composed(MaxPieces) \cup ExampleTexts}
        \cup {IntCell(n) : n \in IntCells} \cup {NaN}

RECURSIVE LetterStrings(_)
LetterStrings(k) ==
    IF k = 0 THEN {""}
    ELSE {s \o c : s \in LetterStrings(k - 1), c \in CharsOf(UPPER)}

\* column letters as a configuration writes them, and two in lower case
ColumnLetters ==
    UNION {LetterStrings(k) : k \in 1..MaxLetters} \cup {"a", "ad"}


-----------------------------------------------------------------------------
(* _analyze_result_column *)

ZeroCounts == [pass |-> 0, fail |-> 0, not_available |-> 0, invalid |-> 0]

\* the loop ends at the first invalid cell
RECURSIVE CountLoop_stops_at_invalid(_, _, _)
CountLoop_stops_at_invalid(cells, k, acc) ==
    IF k > Len(cells) THEN acc
    ELSE LET c == _classify_value(cells[k])
         IN IF c = "pass"
            THEN CountLoop_stops_at_invalid(cells, k + 1, [acc EXCEPT !.pass = @ + 1])
            ELSE IF c = "fail"
            THEN CountLoop_stops_at_invalid(cells, k + 1, [acc EXCEPT !.fail = @ + 1])
            ELSE IF c = "not_available"
            THEN CountLoop_stops_at_invalid(cells, k + 1,
                                            [acc EXCEPT !.not_available = @ + 1])
            ELSE [acc EXCEPT !.invalid = @ + 1]

\* the for loop over df[column]: one classification and one counter bump per cell
RECURSIVE CountLoop(_, _, _)
CountLoop(cells, k, acc) ==
    IF k > Len(cells) THEN acc
    ELSE LET c == _classify_value(cells[k])
         IN CountLoop(cells, k + 1,
                IF c = "pass" THEN [acc EXCEPT !.pass = @ + 1]
                ELSE IF c = "fail" THEN [acc EXCEPT !.fail = @ + 1]
                ELSE IF c = "not_available" THEN [acc EXCEPT !.not_available = @ + 1]
                ELSE [acc EXCEPT !.invalid = @ + 1])

\* df[column]: the cells of the column labelled name
ColumnCells(frame, name) ==
    (CHOOSE c \in {frame.columns[i] : i \in 1..Len(frame.columns)} : c.name = name).cells

\* a column analysis whose valid total forgets the not-available cells
_analyze_result_column_no_na(frame, column) ==
    LET n == CountLoop(ColumnCells(frame, column), 1, ZeroCounts)
    IN [pass_count |-> n.pass,
        fail_count |-> n.fail,
        not_available_count |-> n.not_available,
        invalid_count |-> n.invalid,
        total |-> n.pass + n.fail,
        total_rows |-> frame.nrows]

_analyze_result_column(frame, column) ==
    LET n == CountLoop(ColumnCells(frame, column), 1, ZeroCounts)
        valid_total == n.pass + n.fail + n.not_available
    IN [pass_count |-> n.pass,
        fail_count |-> n.fail,
        not_available_count |-> n.not_available,
        invalid_count |-> n.invalid,
        total |-> valid_total,
        total_rows |-> frame.nrows]

-----------------------------------------------------------------------------
(* identify_result_columns *)

RESULT_KEYWORDS == <<"result", "status", "outcome", "pass", "fail", "test result",
                     "qa result", "test status", "qa status", "verdict", "n/a">>

\* head(100) of the sample
SAMPLE_SIZE == 100

\* the 0.3 of the density test, as a fraction
THRESHOLD_NUM == 3
THRESHOLD_DEN == 10

\* series.dropna().astype(str).str.lower().head(100)
Sample(cells) ==
    LET kept == SelectSeq(cells, LAMBDA v : ~isna(v))
        lowered == [i \in 1..Len(kept) |-> Text(lower(str(kept[i])))]
    IN SubSeq(lowered, 1, IF Len(lowered) < SAMPLE_SIZE THEN Len(lowered) ELSE SAMPLE_SIZE)

\* a column is taken from 30% on
_column_has_pass_fail_values_from_30(cells) ==
    LET sample == Sample(cells)
        matches == Cardinality({i \in 1..Len(sample) :
                       _classify_value(sample[i]) \in {"pass", "fail", "not_available"}})
    IN IF Len(sample) = 0 THEN FALSE
       ELSE matches * THRESHOLD_DEN >= THRESHOLD_NUM * Len(sample)

_column_has_pass_fail_values(cells) ==
    LET sample == Sample(cells)
        matches == Cardinality({i \in 1..Len(sample) :
                       _classify_value(sample[i]) \in {"pass", "fail", "not_available"}})
    IN IF Len(sample) = 0 THEN FALSE
       ELSE matches * THRESHOLD_DEN > THRESHOLD_NUM * Len(sample)

\* the for loop over df.columns, from position k on
RECURSIVE IdentifyLoop(_, _, _)
IdentifyLoop(frame, k, found) ==
    IF k > Len(frame.columns) THEN found
    ELSE LET col == frame.columns[k]
             col_lower == strip(lower(col.name))
         IN IF \E j \in 1..Len(RESULT_KEYWORDS) : Contains(RESULT_KEYWORDS[j], col_lower)
            THEN IdentifyLoop(frame, k + 1, Append(found, col.name))
            ELSE IF _column_has_pass_fail_values(col.cells)
            THEN IdentifyLoop(frame, k + 1, Append(found, col.name))
            ELSE IdentifyLoop(frame, k + 1, found)

identify_result_columns(frame) == IdentifyLoop(frame, 1, <<>>)

-----------------------------------------------------------------------------
(* analyze_sheet *)

\* the loop ends at the first letter beyond the sheet
RECURSIVE ConfiguredLoop_stops_at_out_of_range(_, _, _, _)
ConfiguredLoop_stops_at_out_of_range(frame, letters, k, found) ==
    IF k > Len(letters) THEN found
    ELSE LET idx == column_letter_to_index(letters[k])
         IN IF idx < Len(frame.columns)
            THEN ConfiguredLoop_stops_at_out_of_range(frame, letters, k + 1,
                                Append(found, frame.columns[idx + 1].name))
            ELSE found

\* the for loop over the configured letters, from position k on
RECURSIVE ConfiguredLoop(_, _, _, _)
ConfiguredLoop(frame, letters, k, found) ==
    IF k > Len(letters) THEN found
    ELSE LET idx == column_letter_to_index(letters[k])
         IN IF idx < Len(frame.columns)
            THEN ConfiguredLoop(frame, letters, k + 1,
                                Append(found, frame.columns[idx + 1].name))
            ELSE ConfiguredLoop(frame, letters, k + 1, found)

\* sum(column_summaries[col][field] for col in result_columns)
RECURSIVE SumOver(_, _, _, _)
SumOver(summaries, cols, k, field) ==
    IF k > Len(cols) THEN 0
    ELSE summaries[cols[k]][field] + SumOver(summaries, cols, k + 1, field)

\* ' + '.join(items)
RECURSIVE Join(_, _, _)
Join(sep, items, k) ==
    IF k > Len(items) THEN ""
    ELSE IF k = Len(items) THEN items[k]
    ELSE items[k] \o sep \o Join(sep, items, k + 1)

\* only the first listed column is counted
CombinedSummary_first_column(summaries, cols) == summaries[cols[1]]

CombinedSummary(summaries, cols) ==
    LET combined_pass == SumOver(summaries, cols, 1, "pass_count")
        combined_fail == SumOver(summaries, cols, 1, "fail_count")
        combined_na == SumOver(summaries, cols, 1, "not_available_count")
        combined_invalid == SumOver(summaries, cols, 1, "invalid_count")
    IN [pass_count |-> combined_pass,
        fail_count |-> combined_fail,
        not_available_count |-> combined_na,
        invalid_count |-> combined_invalid,
        total |-> combined_pass + combined_fail + combined_na,
        total_rows |-> SumOver(summaries, cols, 1, "total_rows")]

\* the value analyze_sheet returns for a sheet that was read
AnalyzeFrame(sheet_name, frame, config) ==
    LET cols == IF config.configured
                THEN ConfiguredLoop(frame, config.letters, 1, <<>>)
                ELSE identify_result_columns(frame)
        summaries == [name \in {cols[i] : i \in 1..Len(cols)} |->
                         _analyze_result_column(frame, name)]
        primary_summary == IF Len(cols) > 1 THEN CombinedSummary(summaries, cols)
                           ELSE summaries[cols[1]]
        primary_col == IF Len(cols) = 1 THEN cols[1]
                       ELSE IF Len(cols) = 2 THEN cols[1] \o " + " \o cols[2]
                       ELSE IntStr(Len(cols)) \o " columns combined"
        configured_column_letter ==
            IF ~config.configured THEN "None"
            ELSE IF Len(config.letters) > 1 THEN Join(" + ", config.letters, 1)
            ELSE config.letters[1]
    IN IF cols = <<>>
       THEN [sheet_name |-> sheet_name,
             total_rows |-> frame.nrows,
             total_columns |-> Len(frame.columns),
             has_results |-> FALSE,
             result_columns |-> <<>>,
             summary |-> <<>>]
       ELSE [sheet_name |-> sheet_name,
             total_rows |-> frame.nrows,
             total_columns |-> Len(frame.columns),
             has_results |-> TRUE,
             result_columns |-> cols,
             primary_column |-> primary_col,
             configured_column_letter |-> configured_column_letter,
             column_summaries |-> summaries,
             summary |-> primary_summary]

\* the value analyze_sheet returns from its except branch
ErrorResult(sheet_name, e) ==
    [sheet_name |-> sheet_name, error |-> e, has_results |-> FALSE]

analyze_sheet(sheet_name, frame, config) ==
    IF frame.readable THEN AnalyzeFrame(sheet_name, frame, config)
    ELSE ErrorResult(sheet_name, frame.error)

-----------------------------------------------------------------------------
(* Sheets and configuration entries *)

\* most rows of a sheet
MaxRows == 2

SHEET_NAME == "Sheet1"

\* the header row: one label per column position; pandas keeps labels distinct
COLUMN_NAMES == <<"Status", "Notes">>

\* cells of a sheet: one text per classification, and the empty cell (NaN)
SheetCells == {Text("Pass"), Text("Fail"), Text("n/a"), NaN}

\* a sheet that was read: nrows rows under the first ncols labels
FramesOf(ncols, nrows) ==
    {[readable |-> TRUE, error |-> "", nrows |-> nrows,
      columns |-> [i \in 1..ncols |-> [name |-> COLUMN_NAMES[i], cells |-> grid[i]]]] :
        grid \in [1..ncols -> [1..nrows -> SheetCells]]}

\* a sheet read_excel raises on
Unreadable == [readable |-> FALSE, error |-> "bad sheet", nrows |-> 0, columns |-> <<>>]

Frames ==
    FramesOf(0, 0)
        \cup UNION {FramesOf(c, r) : c \in 1..Len(COLUMN_NAMES), r \in 0..MaxRows}
        \cup {Unreadable}

ConfigLetters == {"A", "B", "C"}

\* no entry for the sheet, or an entry listing up to two letters
ConfigEntries ==
    {[configured |-> FALSE, letters |-> <<>>]}
        \cup {[configured |-> TRUE, letters |-> l] :
                l \in UNION {[1..n -> ConfigLetters] : n \in 0..2}}

NotAnalyzed == [sheet_name |-> "", has_results |-> FALSE]

\* the sheet_config argument left out: None.  A mapping that is given is
\* [given |-> TRUE, entries |-> its entries in insertion order].
None == [given |-> FALSE, entries |-> <<>>]

-----------------------------------------------------------------------------
(* Specifications *)

\* the variables of the calls a specification does not make
IdleClassify == value = NaN /\ classification = "unset"
IdleLetters == letter = "A" /\ col_idx = 0 - 1
IdleSheet ==
    /\ df = Unreadable
    /\ sheet_config = [configured |-> FALSE, letters |-> <<>>]
    /\ sheet_result = NotAnalyzed
IdleDetect == result_columns = <<>>
\* self.combined_data = None
NoData == [loaded |-> FALSE, columns |-> {}, rows |-> <<>>]

NotCalled == [kind |-> "not called"]

IdleHistory ==
    /\ directory = <<>>
    /\ csv_files = <<>>
    /\ combined_data = NoData
    /\ query = ""
    /\ returned = NotCalled

IdleWorkbook ==
    /\ sheet_names = <<>>
    /\ workbook = <<>>
    /\ workbook_config = None
    /\ sheets_to_analyze = <<>>
    /\ position = 0
    /\ analysis_results = <<>>
    /\ csv_data = <<>>

Init ==
    /\ value \in CellValues
    /\ classification = "unset"
    /\ pc = "ready"
    /\ IdleLetters
    /\ IdleSheet
    /\ IdleDetect
    /\ IdleWorkbook
    /\ IdleHistory

ClassifyValue ==
    /\ pc = "ready"
    /\ classification' = _classify_value(value)
    /\ pc' = "done"
    /\ UNCHANGED <<value, letter, col_idx, df, sheet_config, sheet_result, result_columns,
                   workbook_vars, history_vars>>

Next == ClassifyValue

Spec == Init /\ [][Next]_vars

InitLetters ==
    /\ letter \in ColumnLetters
    /\ col_idx = 0 - 1
    /\ pc = "ready"
    /\ IdleClassify
    /\ IdleSheet
    /\ IdleDetect
    /\ IdleWorkbook
    /\ IdleHistory

ConvertLetter ==
    /\ pc = "ready"
    /\ col_idx' = column_letter_to_index(letter)
    /\ pc' = "done"
    /\ UNCHANGED <<value, classification, letter, df, sheet_config, sheet_result, result_columns,
                   workbook_vars, history_vars>>

NextLetters == ConvertLetter

SpecLetters == InitLetters /\ [][NextLetters]_vars

InitSheet ==
    /\ df \in Frames
    /\ sheet_config \in ConfigEntries
    /\ sheet_result = NotAnalyzed
    /\ pc = "ready"
    /\ IdleClassify
    /\ IdleLetters
    /\ IdleDetect
    /\ IdleWorkbook
    /\ IdleHistory

AnalyzeSheet ==
    /\ pc = "ready"
    /\ sheet_result' = analyze_sheet(SHEET_NAME, df, sheet_config)
    /\ pc' = "done"
    /\ UNCHANGED <<value, classification, letter, col_idx, df, sheet_config, result_columns,
                   workbook_vars, history_vars>>

NextSheet == AnalyzeSheet

SpecSheet == InitSheet /\ [][NextSheet]_vars

-----------------------------------------------------------------------------
(* Properties of _classify_value, checked under Spec *)

Classes == {"pass", "fail", "not_available", "invalid"}

\* the text the pattern tests of the call under study see
Seen == Normalize(strip(str(value)))

\* the cell is not missing and not blank
NonBlank == ~isna(value) /\ strip(str(value)) # ""

MatchesPass(t) == \E k \in 1..Len(PASS_PATTERNS) : re_search(PASS_PATTERNS[k], t, TRUE)

MatchesFail(t) == \E k \in 1..Len(FAIL_PATTERNS) : re_search(FAIL_PATTERNS[k], t, TRUE)

\* C1: _classify_value is total: for every cell value (text, a number, the empty
\* string, a missing cell) the call returns one of the four classifications.
C1_ClassifyTotal == pc = "done" => classification \in Classes

C1_Witness == pc = "done" /\ value = IntCell(42) /\ classification = "invalid"

C3_Examples ==
    pc = "done" =>
        /\ value \in {Text("Pass"), Text("PASSED"), Text(" pass ")}
               => classification = "pass"
        /\ value \in {Text("Failed"), Text("Rejected"), Text("To Do")}
               => classification = "fail"
        /\ value \in {Text("N/A"), Text("n-a"), Text("not applicable")}
               => classification = "not_available"
        /\ value \in {Text(""), Text("   "), Text("random comment")}
               => classification = "invalid"

C3_Witness == pc = "done" /\ value = Text("N/A") /\ classification = "not_available"

\* C4: a cell that holds only a check-mark glyph is pass, and a cell that holds only
\* a cross-mark glyph is fail.
C4_Glyphs ==
    pc = "done" =>
        /\ value \in {Text(CHECK_MARK), Text(HEAVY_CHECK_MARK)} => classification = "pass"
        /\ value \in {Text(BALLOT_X), Text(HEAVY_BALLOT_X)} => classification = "fail"

\* the keywords of the two pattern tables (the glyphs are not words)
Keywords ==
    (UNION {PASS_PATTERNS[k] : k \in 1..Len(PASS_PATTERNS)}
        \cup UNION {FAIL_PATTERNS[k] : k \in 1..Len(FAIL_PATTERNS)})
    \ {CHECK_MARK, HEAVY_CHECK_MARK, BALLOT_X, HEAVY_BALLOT_X}

Glyphs == {CHECK_MARK, HEAVY_CHECK_MARK, BALLOT_X, HEAVY_BALLOT_X}

IsAlnum(c) == c \in CharsOf(UPPER) \cup CharsOf(LOWER) \cup CharsOf(DIGITS)

\* word occurs in t at offset i
OccursAt(word, t, i) == SubSeq(t, i + 1, i + Len(word)) = word

Offsets(word, t) == {i \in 0..(Len(t) - Len(word)) : OccursAt(word, t, i)}

\* the occurrence of word at offset i of t is a proper part of a longer alphanumeric word
InsideWord(word, t, i) ==
    \/ i >= 1 /\ IsAlnum(Chr(t, i))
    \/ i + Len(word) < Len(t) /\ IsAlnum(Chr(t, i + Len(word) + 1))

\* the occurrence of word at offset i of t is a token: no word character touches it
TokenAt(word, t, i) ==
    /\ OccursAt(word, t, i)
    /\ i = 0 \/ ~IsWordChar(Chr(t, i))
    /\ i + Len(word) = Len(t) \/ ~IsWordChar(Chr(t, i + Len(word) + 1))

\* some keyword occurs in t, and every occurrence of a keyword is inside a longer word
KeywordsOnlyInsideWords(t) ==
    /\ \E w \in Keywords : Offsets(w, t) # {}
    /\ \A w \in Keywords : \A i \in Offsets(w, t) : InsideWord(w, t, i)

\* C5: pass and fail matching is whole-word: a value in which pass or fail keywords
\* occur only as proper parts of longer alphanumeric words, and which matches
\* nothing else (no not-available test, no glyph), is classified invalid.
C5_WholeWord ==
    (/\ pc = "done"
     /\ NonBlank
     /\ CharsOf(Seen) \cap Glyphs = {}
     /\ ~IsNotAvailable(Seen)
     /\ KeywordsOnlyInsideWords(Seen))
        => classification = "invalid"

C5_Witness ==
    /\ pc = "done"
    /\ value = Text("passenger seat test")
    /\ KeywordsOnlyInsideWords(Seen)
    /\ classification = "invalid"

\* the short not-available forms
ShortNaForms == {"n/a", "na", "n-a", "n a"}

\* C6: the not-available rule fires only on whole-word occurrences: a value in which
\* the short forms n/a, na, n-a, n a occur, but never as a stand-alone token, is not
\* classified not_available.
C6_NaWholeWordOnly ==
    (/\ pc = "done"
     /\ NonBlank
     /\ \E f \in ShortNaForms : Offsets(f, Seen) # {}
     /\ \A f \in ShortNaForms : \A i \in Offsets(f, Seen) : ~TokenAt(f, Seen, i))
        => classification # "not_available"

\* C7: a value that holds one of the six not-available forms as a whole token inside
\* longer text is classified not_available.
C7_NaTokenInText ==
    (/\ pc = "done"
     /\ NonBlank
     /\ Seen \notin NA_EXACT
     /\ \E f \in NA_EXACT : \E i \in Offsets(f, Seen) : TokenAt(f, Seen, i))
        => classification = "not_available"

\* the fail-indicating forms the documentation lists
DocumentedFailForms ==
    {"fail", "failed", "error", "rejected", "blocked", "invalid", "incomplete",
     "pending", "in progress", "to do", "not started", "not done", "not completed"}

\* C8: each documented fail-indicating form, as the whole cell value, is fail.
C8_FailForms ==
    (pc = "done" /\ value \in {Text(f) : f \in DocumentedFailForms})
        => classification = "fail"

-----------------------------------------------------------------------------
(* Properties of column_letter_to_index, checked under SpecLetters *)

\* the value of a letter as a bijective base-26 digit: A = 1 .. Z = 26
DigitValue(c) == CHOOSE d \in 1..26 : Chr(UPPER, d) = c

RECURSIVE Pow26(_)
Pow26(n) == IF n = 0 THEN 1 ELSE 26 * Pow26(n - 1)

\* sum of digit_i * 26^position, positions counted from the right from 0
RECURSIVE PositionalSum(_, _)
PositionalSum(s, i) ==
    IF i > Len(s) THEN 0
    ELSE DigitValue(Chr(s, i)) * Pow26(Len(s) - i) + PositionalSum(s, i + 1)

\* the letter string of a bijective base-26 number
RECURSIVE LettersOf(_)
LettersOf(n) ==
    IF n = 0 THEN ""
    ELSE LettersOf((n - 1) \div 26) \o Chr(UPPER, ((n - 1) % 26) + 1)

IsUpperString(s) == s # "" /\ \A i \in 1..Len(s) : Chr(s, i) \in CharsOf(UPPER)

\* C9: column_letter_to_index is the bijective base-26 conversion minus one: the
\* index of a string of letters A-Z is sum(digit_i * 26^position) - 1, it is not
\* negative, A, Z, AA and AD give 0, 25, 26 and 29, and the string can be read back
\* from the index, so distinct strings give distinct indices.
C9_LetterIndex ==
    (pc = "done" /\ IsUpperString(letter)) =>
        /\ col_idx = PositionalSum(letter, 1) - 1
        /\ col_idx >= 0
        /\ LettersOf(col_idx + 1) = letter
        /\ letter = "A" => col_idx = 0
        /\ letter = "Z" => col_idx = 25
        /\ letter = "AA" => col_idx = 26
        /\ letter = "AD" => col_idx = 29

C9_Witness == pc = "done" /\ letter = "AD" /\ col_idx = 29

-----------------------------------------------------------------------------
(* Properties of analyze_sheet, checked under SpecSheet *)

\* the two equations of a Column Result
CountsAddUp(r) ==
    /\ r.pass_count + r.fail_count + r.not_available_count + r.invalid_count = r.total_rows
    /\ r.total = r.pass_count + r.fail_count + r.not_available_count

\* C10: every Column Result, the one of each analysed column and the combined summary
\* of the sheet, has pass + fail + not_available + invalid = total_rows and
\* total = pass + fail + not_available.
C10_ColumnResultInvariant ==
    (pc = "done" /\ sheet_result.has_results) =>
        /\ CountsAddUp(sheet_result.summary)
        /\ \A name \in DOMAIN sheet_result.column_summaries :
               CountsAddUp(sheet_result.column_summaries[name])

C10_Witness ==
    /\ pc = "done"
    /\ sheet_result.has_results
    /\ Len(sheet_result.result_columns) = 2
    /\ sheet_result.result_columns[1] # sheet_result.result_columns[2]
    /\ sheet_result.summary.invalid_count > 0
    /\ sheet_result.summary.not_available_count > 0
    /\ sheet_result.summary.total_rows = 2 * df.nrows

\* the column of a sheet under a label
ColumnNamed(frame, name) ==
    frame.columns[CHOOSE i \in 1..Len(frame.columns) : frame.columns[i].name = name]

\* how many cells of the column under a label have a classification
CellsOfClass(frame, name, class) ==
    LET cells == ColumnNamed(frame, name).cells
    IN Cardinality({i \in 1..Len(cells) : _classify_value(cells[i]) = class})

RECURSIVE SumCells(_, _, _, _)
SumCells(frame, cols, k, class) ==
    IF k > Len(cols) THEN 0
    ELSE CellsOfClass(frame, cols[k], class) + SumCells(frame, cols, k + 1, class)

Reversed(s) == [i \in 1..Len(s) |-> s[Len(s) + 1 - i]]

\* C11: when a sheet resolves to two or more result columns, each count of its
\* summary is the sum of that count over the columns taken one by one, and the
\* summary is the same when the configured letters are listed in the opposite order.
C11_MultiColumnSum ==
    (pc = "done" /\ sheet_result.has_results /\ Len(sheet_result.result_columns) >= 2) =>
        LET cols == sheet_result.result_columns
            summary == sheet_result.summary
        IN /\ summary.pass_count = SumCells(df, cols, 1, "pass")
           /\ summary.fail_count = SumCells(df, cols, 1, "fail")
           /\ summary.not_available_count = SumCells(df, cols, 1, "not_available")
           /\ summary.invalid_count = SumCells(df, cols, 1, "invalid")
           /\ sheet_config.configured =>
                  analyze_sheet(SHEET_NAME, df,
                                [configured |-> TRUE,
                                 letters |-> Reversed(sheet_config.letters)]).summary
                      = summary

C11_Witness ==
    /\ pc = "done"
    /\ sheet_config = [configured |-> TRUE, letters |-> <<"B", "A">>]
    /\ sheet_result.has_results
    /\ sheet_result.result_columns = <<"Notes", "Status">>
    /\ sheet_result.summary.pass_count = 3
    /\ sheet_result.summary.fail_count = 1
    /\ sheet_result.column_summaries["Status"].pass_count = 1
    /\ sheet_result.column_summaries["Notes"].pass_count = 2

\* the configured letters that lie inside the sheet, in their listed order
InRange(frame, letters) ==
    SelectSeq(letters, LAMBDA l : PositionalSum(l, 1) - 1 < Len(frame.columns))

\* C12: in configured mode a letter whose index is at or beyond the number of
\* columns is skipped without an error, every letter inside the sheet contributes
\* the column at its position, and when no letter is inside the sheet the result has
\* has_results false and no error field.
C12_OutOfRangeSkipped ==
    (pc = "done" /\ df.readable /\ sheet_config.configured) =>
        LET kept == InRange(df, sheet_config.letters)
        IN /\ "error" \notin DOMAIN sheet_result
           /\ Len(sheet_result.result_columns) = Len(kept)
           /\ \A i \in 1..Len(kept) :
                  sheet_result.result_columns[i] = df.columns[PositionalSum(kept[i], 1)].name
           /\ kept = <<>> => ~sheet_result.has_results

C12_Witness ==
    /\ pc = "done"
    /\ df.readable
    /\ Len(df.columns) = 1
    /\ sheet_config = [configured |-> TRUE, letters |-> <<"C", "A">>]
    /\ sheet_result.has_results
    /\ sheet_result.result_columns = <<"Status">>

\* the case of C12 where every configured letter lies beyond the sheet
C12_WitnessNoneInRange ==
    /\ pc = "done"
    /\ df.readable
    /\ Len(df.columns) = 2
    /\ sheet_config = [configured |-> TRUE, letters |-> <<"C">>]
    /\ ~sheet_result.has_results

-----------------------------------------------------------------------------
(* One column run through identify_result_columns *)

\* most runs of equal cells a column is made of
MaxBlocks == 2

\* the label of the column: without a keyword, with one, with one inside a word
DetectHeaders == {"Notes", " QA Status ", "Bypass"}

\* cells of the column: one text per class, a text of no class, the empty cell
DetectCells == {Text("Pass"), Text("Fail"), Text("N/A"), Text("tbd"), NaN}

\* lengths of a run: short of, and beyond, the 100 values that are sampled
BlockLengths == {3, 7, 100}

Blocks == [cell : DetectCells, count : BlockLengths]

RECURSIVE CellsOfBlocks(_, _)
CellsOfBlocks(blocks, k) ==
    IF k > Len(blocks) THEN <<>>
    ELSE [i \in 1..blocks[k].count |-> blocks[k].cell] \o CellsOfBlocks(blocks, k + 1)

DetectFrames ==
    {[readable |-> TRUE, error |-> "", nrows |-> Len(cells),
      columns |-> <<[name |-> header, cells |-> cells]>>] :
        header \in DetectHeaders,
        cells \in {CellsOfBlocks(b, 1) : b \in UNION {[1..n -> Blocks] : n \in 0..MaxBlocks}}}

InitDetect ==
    /\ df \in DetectFrames
    /\ result_columns = <<>>
    /\ sheet_config = [configured |-> FALSE, letters |-> <<>>]
    /\ sheet_result = NotAnalyzed
    /\ pc = "ready"
    /\ IdleClassify
    /\ IdleLetters
    /\ IdleWorkbook
    /\ IdleHistory

IdentifyResultColumns ==
    /\ pc = "ready"
    /\ result_columns' = identify_result_columns(df)
    /\ pc' = "done"
    /\ UNCHANGED <<value, classification, letter, col_idx, df, sheet_config, sheet_result,
                   workbook_vars, history_vars>>

NextDetect == IdentifyResultColumns

SpecDetect == InitDetect /\ [][NextDetect]_vars

-----------------------------------------------------------------------------
(* Properties of identify_result_columns, checked under SpecDetect *)

IsResultClass(v) == _classify_value(v) \in {"pass", "fail", "not_available"}

\* the positions of the first (at most 100) non-empty cells of a column
Sampled(cells) ==
    LET nonempty == {i \in 1..Len(cells) : ~isna(cells[i])}
    IN {i \in nonempty : Cardinality({j \in nonempty : j <= i}) <= 100}

\* <<hits, seen>>: how many cells are sampled, and how many of them classify as
\* pass, fail or not_available
Density(cells) ==
    LET sampled == Sampled(cells)
    IN <<Cardinality({i \in sampled : IsResultClass(cells[i])}), Cardinality(sampled)>>

HeaderHasKeyword(name) ==
    \E j \in 1..Len(RESULT_KEYWORDS) : Contains(RESULT_KEYWORDS[j], lower(name))

\* more than 30% of the sampled cells: 10 * hits > 3 * seen
DenseEnough(cells) ==
    LET w == Density(cells)
    IN 10 * w[1] > 3 * w[2]

\* C13: auto-detect takes a column exactly when its lower-cased header contains a
\* result keyword, or strictly more than 30% of its first (at most 100) non-empty
\* values classify as pass, fail or not_available; a column without a keyword whose
\* sample is at exactly 30%, or is empty, is not taken.
C13_AutoDetect ==
    pc = "done" =>
        LET col == df.columns[1]
            w == Density(col.cells)
        IN /\ (result_columns = <<col.name>>) <=>
                  (HeaderHasKeyword(col.name) \/ DenseEnough(col.cells))
           /\ result_columns \in {<<>>, <<col.name>>}
           /\ (~HeaderHasKeyword(col.name) /\ (w[2] = 0 \/ 10 * w[1] = 3 * w[2])) =>
                  result_columns = <<>>

\* three of ten non-empty values match and the header has no keyword: not taken
C13_Witness ==
    /\ pc = "done"
    /\ df.columns[1].name = "Notes"
    /\ Density(df.columns[1].cells) = <<3, 10>>
    /\ result_columns = <<>>

\* a column taken for its values alone, the values beyond the first 100 not counted
C13_WitnessDense ==
    /\ pc = "done"
    /\ df.columns[1].name = "Notes"
    /\ df.nrows = 107
    /\ Density(df.columns[1].cells) = <<100, 100>>
    /\ result_columns = <<"Notes">>

-----------------------------------------------------------------------------
(* analyze_all_sheets and save_to_csv *)

\* most sheets of a workbook, and most entries of a configuration
MaxSheets == 2

\* sheet names, three of the keys of QA_SHEET_CONFIG
WORKBOOK_SHEETS == <<"SMS template", "WrapUp", "LAP">>

SheetUniverse == {WORKBOOK_SHEETS[i] : i \in 1..MaxSheets}

\* a sheet of one column that was read
Frame1(name, cells) ==
    [readable |-> TRUE, error |-> "", nrows |-> Len(cells),
     columns |-> <<[name |-> name, cells |-> cells]>>]

\* a sheet without columns
EmptySheet == [readable |-> TRUE, error |-> "", nrows |-> 0, columns |-> <<>>]

\* what a sheet of the workbook can hold: nothing, two result columns (auto-detect
\* takes both, a configured letter one of them), a column that auto-detect passes
\* over, or something read_excel raises on
WorkbookFrames ==
    {EmptySheet,
     [readable |-> TRUE, error |-> "", nrows |-> 3,
      columns |-> <<[name |-> "Status", cells |-> <<Text("Pass"), Text("Fail"), NaN>>],
                    [name |-> "Result", cells |-> <<Text("Pass"), NaN, NaN>>]>>],
     Frame1("Notes", <<Text("tbd"), NaN>>),
     Unreadable}

\* the sheets of a workbook, in workbook order
SheetLists ==
    {SelectSeq(WORKBOOK_SHEETS, LAMBDA n : n \in chosen) :
        chosen \in (SUBSET SheetUniverse) \ {{}}}

\* a dict in insertion order: a sequence of <<key, value>> entries with distinct keys
Keys(d) == [i \in 1..Len(d) |-> d[i].key]

KeySet(d) == {d[i].key : i \in 1..Len(d)}

DictGet(d, k) == d[CHOOSE i \in 1..Len(d) : d[i].key = k].value

\* d[k] = v
\* an assignment that takes the place of the entry made last
DictSet_replaces_last(d, k, v) ==
    IF d = <<>> THEN <<[key |-> k, value |-> v]>>
    ELSE [d EXCEPT ![Len(d)] = [key |-> k, value |-> v]]

DictSet(d, k, v) ==
    IF k \in KeySet(d)
    THEN [i \in 1..Len(d) |-> IF d[i].key = k THEN [key |-> k, value |-> v] ELSE d[i]]
    ELSE Append(d, [key |-> k, value |-> v])

\* the sheet_config argument: None, or a dict from sheet names to letter lists
SheetConfigs ==
    {None} \cup
    {[given |-> TRUE, entries |-> d] :
        d \in {e \in UNION {[1..n -> [key : SheetUniverse, value : {<<"A">>, <<"B">>}]] :
                              n \in 0..MaxSheets} :
                  \A i, j \in 1..Len(e) : e[i].key = e[j].key => i = j}}

\* bool(self.sheet_config): None and the empty dict are false
Truthy(c) == c.given /\ c.entries # <<>>

\* self.sheet_config and sheet_name in self.sheet_config, and the letters if so
EntryOf(c, sheet_name) ==
    IF Truthy(c) /\ sheet_name \in KeySet(c.entries)
    THEN [configured |-> TRUE, letters |-> DictGet(c.entries, sheet_name)]
    ELSE [configured |-> FALSE, letters |-> <<>>]

\* the list analyze_all_sheets loops over
SheetsToAnalyze(c, names) ==
    IF Truthy(c)
    THEN SelectSeq(Keys(c.entries), LAMBDA s : \E i \in 1..Len(names) : names[i] = s)
    ELSE names

\* a failing sheet leaves no entry
RecordSheet_drops_failures(results, sheet_name, frame, c) ==
    IF frame.readable
    THEN DictSet(results, sheet_name, analyze_sheet(sheet_name, frame, EntryOf(c, sheet_name)))
    ELSE results

\* one pass of the loop: self.analysis_results[sheet_name] = self.analyze_sheet(sheet_name)
RecordSheet(results, sheet_name, frame, c) ==
    DictSet(results, sheet_name, analyze_sheet(sheet_name, frame, EntryOf(c, sheet_name)))

\* datetime.now(), read as the second within one minute
Clock == {0, 7, 59}

TwoDigits(n) == IF n < 10 THEN "0" \o IntStr(n) ELSE IntStr(n)

\* strftime('%Y-%m-%d %H:%M:%S')
strftime(now) == "2026-01-01 09:00:" \o TwoDigits(now)

\* round(count / total * 100, 2), in hundredths: ties go to the even neighbour
Round2(count, total) ==
    LET q == (count * 10000) \div total
        r == (count * 10000) % total
    IN IF 2 * r > total THEN q + 1
       ELSE IF 2 * r = total THEN q + (q % 2)
       ELSE q

\* round(count / total_tests * 100, 2) if total_tests > 0 else 0
Percentage(count, total_tests) ==
    IF total_tests > 0 THEN Round2(count, total_tests) ELSE 0

\* every sheet without results is an error
Status_error_without_results(result) ==
    IF result.has_results THEN "analyzed" ELSE "error"

\* the status column of a row
Status(result) ==
    IF result.has_results THEN "analyzed"
    ELSE IF "error" \notin DOMAIN result THEN "no_results"
    ELSE "error"

\* result.get(key, default)
Get(result, key, default) == IF key \in DOMAIN result THEN result[key] ELSE default

\* the row save_to_csv writes for one entry of analysis_results
CsvRow(run_timestamp, sheet_name, result) ==
    IF result.has_results
    THEN LET summary == result.summary
             total_tests == summary.total
         IN [timestamp |-> run_timestamp,
             sheet_name |-> sheet_name,
             total_rows |-> Get(result, "total_rows", 0),
             total_columns |-> Get(result, "total_columns", 0),
             has_results |-> TRUE,
             pass_count |-> summary.pass_count,
             fail_count |-> summary.fail_count,
             not_available_count |-> summary.not_available_count,
             invalid_count |-> summary.invalid_count,
             total_tests |-> total_tests,
             total_rows_in_sheet |-> summary.total_rows,
             pass_percentage |-> Percentage(summary.pass_count, total_tests),
             fail_percentage |-> Percentage(summary.fail_count, total_tests),
             not_available_percentage |->
                 Percentage(summary.not_available_count, total_tests),
             configured_column_letter |-> Get(result, "configured_column_letter", ""),
             primary_result_column |-> result.primary_column,
             all_result_columns |-> Join("|", result.result_columns, 1),
             status |-> Status(result)]
    ELSE [timestamp |-> run_timestamp,
          sheet_name |-> sheet_name,
          total_rows |-> Get(result, "total_rows", 0),
          total_columns |-> Get(result, "total_columns", 0),
          has_results |-> FALSE,
          pass_count |-> 0,
          fail_count |-> 0,
          not_available_count |-> 0,
          invalid_count |-> 0,
          total_tests |-> 0,
          total_rows_in_sheet |-> Get(result, "total_rows", 0),
          pass_percentage |-> 0,
          fail_percentage |-> 0,
          not_available_percentage |-> 0,
          configured_column_letter |-> Get(result, "configured_column_letter", ""),
          primary_result_column |-> "",
          all_result_columns |-> "",
          status |-> Status(result)]

\* rows in which a sheet without results has its rows counted as invalid
CsvData_counts_rows_without_results(results, run_timestamp) ==
    [i \in 1..Len(results) |->
        LET row == CsvRow(run_timestamp, results[i].key, results[i].value)
        IN IF row.has_results THEN row ELSE [row EXCEPT !.invalid_count = row.total_rows]]

\* csv_data: one row per entry of analysis_results, in insertion order
CsvData(results, run_timestamp) ==
    [i \in 1..Len(results) |-> CsvRow(run_timestamp, results[i].key, results[i].value)]

\* the variables of the single calls
call_vars == <<value, classification, letter, col_idx, df, sheet_config, sheet_result,
               result_columns>>

InitWorkbook ==
    /\ sheet_names \in SheetLists
    /\ workbook \in [{sheet_names[i] : i \in 1..Len(sheet_names)} -> WorkbookFrames]
    /\ workbook_config \in SheetConfigs
    /\ sheets_to_analyze = <<>>
    /\ position = 0
    /\ analysis_results = <<>>
    /\ csv_data = <<>>
    /\ pc = "ready"
    /\ IdleClassify
    /\ IdleLetters
    /\ IdleSheet
    /\ IdleDetect
    /\ IdleHistory

\* analyze_all_sheets up to its loop
AnalyzeAllSheets ==
    /\ pc = "ready"
    /\ sheets_to_analyze' = SheetsToAnalyze(workbook_config, sheet_names)
    /\ position' = 0
    /\ pc' = "loop"
    /\ UNCHANGED <<call_vars, history_vars, sheet_names, workbook, workbook_config,
                   analysis_results, csv_data>>

\* one pass of the loop of analyze_all_sheets
AnalyzeNextSheet ==
    /\ pc = "loop"
    /\ position < Len(sheets_to_analyze)
    /\ LET sheet_name == sheets_to_analyze[position + 1]
       IN analysis_results' =
              RecordSheet(analysis_results, sheet_name, workbook[sheet_name], workbook_config)
    /\ position' = position + 1
    /\ UNCHANGED <<call_vars, history_vars, sheet_names, workbook, workbook_config,
                   sheets_to_analyze, csv_data, pc>>

\* the loop is over: return self.analysis_results
ReturnAnalysisResults ==
    /\ pc = "loop"
    /\ position = Len(sheets_to_analyze)
    /\ pc' = "analyzed"
    /\ UNCHANGED <<call_vars, history_vars, sheet_names, workbook, workbook_config,
                   sheets_to_analyze, position, analysis_results, csv_data>>

SaveToCsv ==
    /\ pc = "analyzed"
    /\ \E now \in Clock : csv_data' = CsvData(analysis_results, strftime(now))
    /\ pc' = "done"
    /\ UNCHANGED <<call_vars, history_vars, sheet_names, workbook, workbook_config,
                   sheets_to_analyze, position, analysis_results>>

NextWorkbook ==
    \/ AnalyzeAllSheets
    \/ AnalyzeNextSheet
    \/ ReturnAnalysisResults
    \/ SaveToCsv

SpecWorkbook == InitWorkbook /\ [][NextWorkbook]_vars

-----------------------------------------------------------------------------
(* Properties of a workbook run, checked under SpecWorkbook *)

\* analyze_all_sheets has returned
Analyzed == pc \in {"analyzed", "done"}

SheetSet == {sheet_names[i] : i \in 1..Len(sheet_names)}

\* C14: after analyze_all_sheets, when a configuration was supplied (any mapping,
\* the empty one too) the sheets with a result entry are exactly the configured
\* names that exist in the workbook; when none was supplied they are all the sheets
\* of the workbook.
C14_SheetsAnalyzed ==
    Analyzed =>
        KeySet(analysis_results) =
            IF workbook_config.given
            THEN KeySet(workbook_config.entries) \cap SheetSet
            ELSE SheetSet

\* the run C14 fails on: an empty mapping was supplied, yet every sheet has an entry
C14_EmptyMappingRun ==
    /\ Analyzed
    /\ workbook_config = [given |-> TRUE, entries |-> <<>>]
    /\ KeySet(analysis_results) = SheetSet

\* the loop of analyze_all_sheets over a list of sheets, from position k on
RECURSIVE RunLoop(_, _, _, _, _)
RunLoop(results, sheets, k, frames, c) ==
    IF k > Len(sheets) THEN results
    ELSE RunLoop(DictSet(results, sheets[k],
                         analyze_sheet(sheets[k], frames[sheets[k]], EntryOf(c, sheets[k]))),
                 sheets, k + 1, frames, c)

\* the workbook with every failing sheet replaced by a sheet that can be read
Repaired == [n \in DOMAIN workbook |-> IF workbook[n].readable THEN workbook[n] ELSE EmptySheet]

\* once analyze_all_sheets has returned there is one entry per sheet of the list, in
\* the order of the list; the entry of a failing sheet has has_results false and the
\* failure text, and the entry of every other sheet is what it is when no sheet fails
EntriesIsolated ==
    Analyzed =>
        /\ Keys(analysis_results) = sheets_to_analyze
        /\ \A i \in 1..Len(analysis_results) :
               LET name == analysis_results[i].key
                   entry == analysis_results[i].value
               IN IF workbook[name].readable
                  THEN /\ "error" \notin DOMAIN entry
                       /\ entry = DictGet(RunLoop(<<>>, sheets_to_analyze, 1, Repaired,
                                                  workbook_config), name)
                  ELSE /\ ~entry.has_results
                       /\ entry.error = workbook[name].error
                       /\ entry.sheet_name = name

\* until analyze_all_sheets has returned a step is possible: inside the loop the
\* sheets before the position, failing or not, each have their entry, and either
\* the next sheet is analysed or the loop is left
RunGoesOn ==
    /\ pc = "ready" => ENABLED AnalyzeAllSheets
    /\ pc = "loop" =>
           /\ Keys(analysis_results) = SubSeq(sheets_to_analyze, 1, position)
           /\ position < Len(sheets_to_analyze) \/ ENABLED ReturnAnalysisResults

\* C15: a sheet that fails never aborts the run: for every list of sheets and every
\* set of failing sheets among them analyze_all_sheets goes on until it returns,
\* with one entry per sheet; a failing sheet's entry has has_results false and
\* carries the failure text, and the other entries are the same as if no sheet had
\* failed.
C15_FailureIsolated == RunGoesOn /\ EntriesIsolated

\* the failing sheet comes first and the sheet after it is still analysed
C15_Witness ==
    /\ Analyzed
    /\ Len(sheets_to_analyze) = 2
    /\ ~workbook[sheets_to_analyze[1]].readable
    /\ analysis_results[1].value.error = "bad sheet"
    /\ analysis_results[2].value.has_results
    /\ analysis_results[2].value.summary.pass_count = 1

\* the row of a sheet in what save_to_csv wrote
RowOf(name) == csv_data[CHOOSE i \in 1..Len(csv_data) : csv_data[i].sheet_name = name]

\* the result columns a sheet that was read resolves to
ResolvedColumns(name) ==
    LET entry == EntryOf(workbook_config, name)
    IN IF entry.configured THEN InRange(workbook[name], entry.letters)
       ELSE SelectSeq([i \in 1..Len(workbook[name].columns) |-> workbook[name].columns[i]],
                      LAMBDA col : HeaderHasKeyword(col.name) \/ DenseEnough(col.cells))

\* C16: in every row save_to_csv writes, the status is "analyzed" exactly when
\* has_results is true, "error" exactly when analysing the sheet raised, and
\* "no_results" exactly when the sheet was read and no result column was identified.
C16_RowStatus ==
    pc = "done" =>
        /\ Len(csv_data) = Len(analysis_results)
        /\ \A i \in 1..Len(csv_data) :
               LET row == csv_data[i]
                   frame == workbook[row.sheet_name]
               IN /\ row.status \in {"analyzed", "error", "no_results"}
                  /\ row.status = "analyzed" <=> row.has_results
                  /\ row.status = "error" <=> ~frame.readable
                  /\ row.status = "no_results" <=>
                         (frame.readable /\ ResolvedColumns(row.sheet_name) = <<>>)

\* one run with a row of each status
C16_Witness ==
    /\ pc = "done"
    /\ {csv_data[i].status : i \in 1..Len(csv_data)} = {"error", "no_results"}
    /\ \E i \in 1..Len(csv_data) :
           /\ csv_data[i].status = "no_results"
           /\ workbook[csv_data[i].sheet_name] = Frame1("Notes", <<Text("tbd"), NaN>>)

\* a row with status analyzed
C16_WitnessAnalyzed ==
    /\ pc = "done"
    /\ \E i \in 1..Len(csv_data) :
           /\ csv_data[i].status = "analyzed"
           /\ csv_data[i].has_results
           /\ csv_data[i].total_tests = 2

-----------------------------------------------------------------------------
(* The end-to-end scenario: a ten-row sheet run through analyze_sheet *)

\* how many cells of the result column read "Pass", read "Fail", are empty
ScenarioCounts == [pass |-> 6, fail |-> 3, empty |-> 1]

ScenarioRows == ScenarioCounts.pass + ScenarioCounts.fail + ScenarioCounts.empty

HowMany(cells, v) == Cardinality({i \in 1..Len(cells) : cells[i] = v})

\* the result column with its rows in every order; read_excel reads "" as NaN
ScenarioColumns ==
    {cells \in [1..ScenarioRows -> {Text("Pass"), Text("Fail"), NaN}] :
        /\ HowMany(cells, Text("Pass")) = ScenarioCounts.pass
        /\ HowMany(cells, Text("Fail")) = ScenarioCounts.fail}

\* the column is found by its header, or configured as column A
InitScenario ==
    /\ df \in {Frame1("Result", cells) : cells \in ScenarioColumns}
    /\ sheet_config \in {[configured |-> FALSE, letters |-> <<>>],
                         [configured |-> TRUE, letters |-> <<"A">>]}
    /\ sheet_result = NotAnalyzed
    /\ pc = "ready"
    /\ IdleClassify
    /\ IdleLetters
    /\ IdleDetect
    /\ IdleWorkbook
    /\ IdleHistory

SpecScenario == InitScenario /\ [][NextSheet]_vars

\* C17: for a sheet of 10 rows whose single result column has 6 "Pass", 3 "Fail" and
\* 1 empty cell, analyze_sheet gives has_results true and pass=6, fail=3,
\* not_available=0, invalid=1, total=9, total_rows=10; each count is the number of
\* cells of the column with that classification, whatever the order of the rows.
C17_EndToEnd ==
    pc = "done" =>
        /\ sheet_result.has_results
        /\ sheet_result.result_columns = <<"Result">>
        /\ sheet_result.summary =
               [pass_count |-> 6, fail_count |-> 3, not_available_count |-> 0,
                invalid_count |-> 1, total |-> 9, total_rows |-> 10]
        /\ sheet_result.total_rows = 10
        /\ sheet_result.summary.pass_count = CellsOfClass(df, "Result", "pass")
        /\ sheet_result.summary.fail_count = CellsOfClass(df, "Result", "fail")
        /\ sheet_result.summary.not_available_count =
               CellsOfClass(df, "Result", "not_available")
        /\ sheet_result.summary.invalid_count = CellsOfClass(df, "Result", "invalid")

\* the empty cell is the first row and a "Fail" the last
C17_Witness ==
    /\ pc = "done"
    /\ df.nrows = 10
    /\ df.columns[1].cells[1] = NaN
    /\ df.columns[1].cells[10] = Text("Fail")
    /\ sheet_result.has_results
    /\ sheet_result.summary.pass_count = 6
    /\ sheet_result.summary.total = 9

-----------------------------------------------------------------------------
(* ProgressTracker (src/agent/progress_tracker.py) *)

\* most files of earlier runs in the directory
MaxRuns == 2

\* the clock readings of the earlier runs, seconds within one minute
RunTimes == 1..MaxRuns

\* analyze_all_sheets as a whole: the loop over a list of sheets, from position k on
RECURSIVE AnalyzeLoop(_, _, _, _, _)
AnalyzeLoop(results, sheets, k, frames, c) ==
    IF k > Len(sheets) THEN results
    ELSE AnalyzeLoop(RecordSheet(results, sheets[k], frames[sheets[k]], c),
                     sheets, k + 1, frames, c)

analyze_all_sheets(names, frames, c) ==
    AnalyzeLoop(<<>>, SheetsToAnalyze(c, names), 1, frames, c)

\* a configuration naming column A for two sheets
HISTORY_CONFIG ==
    [given |-> TRUE,
     entries |-> <<[key |-> WORKBOOK_SHEETS[1], value |-> <<"A">>],
                   [key |-> WORKBOOK_SHEETS[2], value |-> <<"A">>]>>]

\* analysis_results of earlier runs: a workbook of one sheet analysed with and
\* without configuration, and configured workbooks of two sheets
HistoryRuns ==
    {analyze_all_sheets(<<WORKBOOK_SHEETS[1]>>, [n \in {WORKBOOK_SHEETS[1]} |-> f], c) :
        f \in WorkbookFrames, c \in {None, HISTORY_CONFIG}}
    \cup
    {analyze_all_sheets(<<WORKBOOK_SHEETS[1], WORKBOOK_SHEETS[2]>>, frames, HISTORY_CONFIG) :
        frames \in [{WORKBOOK_SHEETS[1], WORKBOOK_SHEETS[2]} -> WorkbookFrames \ {EmptySheet}]}

\* f"qa_results_{timestamp}.csv" with strftime('%Y%m%d_%H%M%S')
FileName(now) == "qa_results_20260101_0900" \o TwoDigits(now) \o ".csv"

\* an output_path the caller of save_to_csv gives; the names given to later runs
\* sort before those given to earlier runs
GivenPath(now) == "qa_results_run" \o TwoDigits(60 - now) \o ".csv"

\* the file save_to_csv writes at output_path for a run at a clock reading
CsvFile(output_path, now, results) ==
    [name |-> output_path, rows |-> CsvData(results, strftime(now))]

\* the directories earlier runs leave behind: one file per clock reading, each of a
\* run that analysed at least one sheet, all saved under the default name or all
\* under a given one
Directories ==
    {{CsvFile(FileName(t), t, runs[t]) : t \in times} :
        runs \in [RunTimes -> HistoryRuns], times \in SUBSET RunTimes}
    \cup
    {{CsvFile(GivenPath(t), t, runs[t]) : t \in times} :
        runs \in [RunTimes -> HistoryRuns], times \in SUBSET RunTimes}

\* characters of a file name in code point order
CODE_POINT_ORDER == "." \o DIGITS \o "_" \o LOWER

Ord(c) == CHOOSE i \in 1..Len(CODE_POINT_ORDER) : Chr(CODE_POINT_ORDER, i) = c

\* a < b for str
RECURSIVE StrLess(_, _)
StrLess(a, b) ==
    IF b = "" THEN FALSE
    ELSE IF a = "" THEN TRUE
    ELSE IF Chr(a, 1) = Chr(b, 1) THEN StrLess(Rest(a), Rest(b))
    ELSE Ord(Chr(a, 1)) < Ord(Chr(b, 1))

\* sorted(names)
RECURSIVE SortedNames(_)
SortedNames(names) ==
    IF names = {} THEN <<>>
    ELSE LET first == CHOOSE n \in names : \A m \in names \ {n} : StrLess(n, m)
         IN <<first>> \o SortedNames(names \ {first})

\* int(c) of a digit
DecimalDigit(c) == CHOOSE d \in 0..9 : Chr(DIGITS, d + 1) = c

\* pd.to_datetime of a '%Y-%m-%d %H:%M:%S' text; all readings lie in the same
\* minute, so the datetime is kept as its seconds
to_datetime(s) == DecimalDigit(Chr(s, Len(s) - 1)) * 10 + DecimalDigit(Chr(s, Len(s)))

\* what read_csv makes of a text field: an empty field, and None written as one,
\* come back as NaN
ReadText(v) == IF v = "" \/ v = "None" THEN NaN ELSE Text(v)

\* pd.read_csv of a file save_to_csv wrote; numbers and booleans come back as written
read_csv(file) ==
    [i \in 1..Len(file.rows) |->
        [file.rows[i] EXCEPT
            !.configured_column_letter = ReadText(@),
            !.primary_result_column = ReadText(@),
            !.all_result_columns = ReadText(@)]]

\* pd.concat(dfs, ignore_index=True) over the files in the order of csv_files
RECURSIVE Concat(_, _, _)
Concat(files, names, k) ==
    IF k > Len(names) THEN <<>>
    ELSE read_csv(CHOOSE f \in files : f.name = names[k]) \o Concat(files, names, k + 1)

\* self.combined_data after load_csv_files
Combined(files, names) ==
    LET rows == Concat(files, names, 1)
    IN [loaded |-> TRUE,
        columns |-> UNION {DOMAIN rows[i] : i \in 1..Len(rows)},
        rows |-> [i \in 1..Len(rows) |->
                     [rows[i] EXCEPT !.timestamp = to_datetime(@)]]]

\* the first of the columns a method reads that the frame does not have
Missing(data, fields) == SelectSeq(fields, LAMBDA f : f \notin data.columns)

KeyError(key) == [kind |-> "raised", error |-> "KeyError", key |-> key]

ReturnNone == [kind |-> "None"]

\* df[df['has_results'] == True]
WithResults(rows) == SelectSeq(rows, LAMBDA r : r.has_results = TRUE)

\* df[df['timestamp'] == t]
AtTimestamp(rows, t) == SelectSeq(rows, LAMBDA r : r.timestamp = t)

UniqueTimestamps(rows) == {rows[i].timestamp : i \in 1..Len(rows)}

Max(S) == CHOOSE x \in S : \A y \in S : y <= x

Min(S) == CHOOSE x \in S : \A y \in S : x <= y

\* the group keys of groupby('timestamp'), ascending
RECURSIVE Ascending(_)
Ascending(S) == IF S = {} THEN <<>> ELSE <<Min(S)>> \o Ascending(S \ {Min(S)})

\* rows[field].sum()
RECURSIVE SumField(_, _, _)
SumField(rows, k, field) ==
    IF k > Len(rows) THEN 0 ELSE rows[k][field] + SumField(rows, k + 1, field)

\* the columns both aggregations sum
AGG_FIELDS == <<"pass_count", "fail_count", "unknown_count", "total_tests">>

\* .agg({...: 'sum'}) over the four columns
Totals(rows) ==
    [pass_count |-> SumField(rows, 1, "pass_count"),
     fail_count |-> SumField(rows, 1, "fail_count"),
     unknown_count |-> SumField(rows, 1, "unknown_count"),
     total_tests |-> SumField(rows, 1, "total_tests")]

\* (count / total * 100).round(2) of pandas, in hundredths; there is no test for a
\* total of 0: 0 / 0 is NaN and count / 0 is inf
SeriesPercentage(count, total) ==
    IF total = 0 THEN (IF count = 0 THEN "nan" ELSE "inf")
    ELSE Round2(count, total)

get_overall_progress(data) ==
    IF ~data.loaded THEN ReturnNone
    ELSE LET missing == Missing(data, <<"has_results", "timestamp">> \o AGG_FIELDS)
         IN IF missing # <<>> THEN KeyError(missing[1])
            ELSE LET selected == WithResults(data.rows)
                     stamps == Ascending(UniqueTimestamps(selected))
                 IN [kind |-> "frame",
                     rows |-> [i \in 1..Len(stamps) |->
                         LET t == Totals(AtTimestamp(selected, stamps[i]))
                         IN [timestamp |-> stamps[i],
                             pass_count |-> t.pass_count,
                             fail_count |-> t.fail_count,
                             unknown_count |-> t.unknown_count,
                             total_tests |-> t.total_tests,
                             pass_percentage |->
                                 SeriesPercentage(t.pass_count, t.total_tests),
                             fail_percentage |->
                                 SeriesPercentage(t.fail_count, t.total_tests),
                             unknown_percentage |->
                                 SeriesPercentage(t.unknown_count, t.total_tests)]]]

\* compare_first_and_last without its check of the number of timestamps
compare_first_and_last_unguarded(data) ==
    IF ~data.loaded THEN ReturnNone
    ELSE LET missing == Missing(data, <<"has_results">> \o AGG_FIELDS)
             first_timestamp == Min(UniqueTimestamps(data.rows))
             last_timestamp == Max(UniqueTimestamps(data.rows))
         IN IF missing # <<>> THEN KeyError(missing[1])
            ELSE LET first_totals ==
                         Totals(WithResults(AtTimestamp(data.rows, first_timestamp)))
                     last_totals ==
                         Totals(WithResults(AtTimestamp(data.rows, last_timestamp)))
                 IN [kind |-> "dict",
                     first_timestamp |-> first_timestamp,
                     last_timestamp |-> last_timestamp,
                     first |-> first_totals,
                     last |-> last_totals,
                     changes |->
                         [pass_change |-> last_totals.pass_count - first_totals.pass_count,
                          fail_change |-> last_totals.fail_count - first_totals.fail_count,
                          unknown_change |->
                              last_totals.unknown_count - first_totals.unknown_count,
                          total_change |->
                              last_totals.total_tests - first_totals.total_tests]]

compare_first_and_last(data) ==
    IF ~data.loaded THEN ReturnNone
    ELSE IF "timestamp" \notin data.columns THEN KeyError("timestamp")
    ELSE IF Cardinality(UniqueTimestamps(data.rows)) < 2 THEN ReturnNone
    ELSE LET missing == Missing(data, <<"has_results">> \o AGG_FIELDS)
             first_timestamp == Min(UniqueTimestamps(data.rows))
             last_timestamp == Max(UniqueTimestamps(data.rows))
         IN IF missing # <<>> THEN KeyError(missing[1])
            ELSE LET first_totals ==
                         Totals(WithResults(AtTimestamp(data.rows, first_timestamp)))
                     last_totals ==
                         Totals(WithResults(AtTimestamp(data.rows, last_timestamp)))
                 IN [kind |-> "dict",
                     first_timestamp |-> first_timestamp,
                     last_timestamp |-> last_timestamp,
                     first |-> first_totals,
                     last |-> last_totals,
                     changes |->
                         [pass_change |-> last_totals.pass_count - first_totals.pass_count,
                          fail_change |-> last_totals.fail_count - first_totals.fail_count,
                          unknown_change |->
                              last_totals.unknown_count - first_totals.unknown_count,
                          total_change |->
                              last_totals.total_tests - first_totals.total_tests]]

\* sort_values('timestamp'): the rows by ascending timestamp, rows of one timestamp
\* in the order they had
RECURSIVE SortValues(_, _)
SortValues(rows, stamps) ==
    IF stamps = <<>> THEN <<>>
    ELSE AtTimestamp(rows, Head(stamps)) \o SortValues(rows, Tail(stamps))

\* get_sheet_progress without its sort
get_sheet_progress_unsorted(data, sheet_name) ==
    IF ~data.loaded THEN ReturnNone
    ELSE [kind |-> "frame",
          rows |-> SelectSeq(data.rows, LAMBDA r : r.sheet_name = sheet_name)]

\* get_sheet_progress: the rows of one sheet, by timestamp
get_sheet_progress(data, sheet_name) ==
    IF ~data.loaded THEN ReturnNone
    ELSE LET sheet_data == SelectSeq(data.rows, LAMBDA r : r.sheet_name = sheet_name)
         IN [kind |-> "frame",
             rows |-> SortValues(sheet_data, Ascending(UniqueTimestamps(sheet_data)))]

\* get_latest_snapshot keeping only the rows with results
get_latest_snapshot_with_results(data) ==
    IF ~data.loaded THEN ReturnNone
    ELSE [kind |-> "frame",
          rows |-> WithResults(AtTimestamp(data.rows, Max(UniqueTimestamps(data.rows))))]

\* get_latest_snapshot: the rows of the latest timestamp
get_latest_snapshot(data) ==
    IF ~data.loaded THEN ReturnNone
    ELSE [kind |-> "frame",
          rows |-> AtTimestamp(data.rows, Max(UniqueTimestamps(data.rows)))]

\* the columns the sheet-by-sheet part of the report reads from the latest rows:
\* those of a sheet with results, and the status of a sheet without
SheetFields(latest) ==
    <<"sheet_name", "has_results">>
        \o (IF WithResults(latest) # <<>>
            THEN <<"total_tests", "pass_count", "pass_percentage", "fail_count",
                   "fail_percentage", "unknown_count", "unknown_percentage">>
            ELSE <<>>)
        \o (IF Len(WithResults(latest)) < Len(latest) THEN <<"status">> ELSE <<>>)

\* generate_progress_report; the text of the report is kept as the values it prints
generate_progress_report(data, files) ==
    IF ~data.loaded THEN [kind |-> "str", text |-> "No data loaded"]
    ELSE LET missing ==
                 Missing(data, <<"timestamp", "has_results", "pass_count", "fail_count",
                                 "unknown_count", "total_tests">>)
         IN IF missing # <<>> THEN KeyError(missing[1])
            ELSE LET latest == get_latest_snapshot(data).rows
                     totals == Totals(WithResults(latest))
                     several == Cardinality(UniqueTimestamps(data.rows)) > 1
                     comparison == IF several THEN compare_first_and_last(data)
                                   ELSE ReturnNone
                     overall == IF several THEN get_overall_progress(data)
                                ELSE ReturnNone
                     missing_later == Missing(data, SheetFields(latest))
                 IN IF comparison.kind = "raised" THEN comparison
                    ELSE IF overall.kind = "raised" THEN overall
                    ELSE IF missing_later # <<>> THEN KeyError(missing_later[1])
                    ELSE [kind |-> "report",
                          csv_files_analyzed |-> Len(files),
                          latest_timestamp |-> latest[1].timestamp,
                          totals |-> totals,
                          comparison |-> comparison,
                          trend |-> overall,
                          sheets |-> latest]

InitHistory ==
    /\ directory \in Directories
    /\ csv_files = <<>>
    /\ combined_data = NoData
    /\ query = ""
    /\ returned = NotCalled
    /\ pc = "ready"
    /\ IdleClassify
    /\ IdleLetters
    /\ IdleSheet
    /\ IdleDetect
    /\ IdleWorkbook

\* load_csv_files: returns False and leaves combined_data None when no file matches
LoadCsvFiles ==
    /\ pc = "ready"
    /\ csv_files' = SortedNames({f.name : f \in directory})
    /\ combined_data' = IF csv_files' = <<>> THEN combined_data
                        ELSE Combined(directory, csv_files')
    /\ query' = "load_csv_files"
    /\ returned' = [kind |-> "bool", value |-> csv_files' # <<>>]
    /\ pc' = "loaded"
    /\ UNCHANGED <<call_vars, workbook_vars, directory>>

GetOverallProgress ==
    /\ pc \in {"loaded", "done"}
    /\ query' = "get_overall_progress"
    /\ returned' = get_overall_progress(combined_data)
    /\ pc' = "done"
    /\ UNCHANGED <<call_vars, workbook_vars, directory, csv_files, combined_data>>

CompareFirstAndLast ==
    /\ pc \in {"loaded", "done"}
    /\ query' = "compare_first_and_last"
    /\ returned' = compare_first_and_last(combined_data)
    /\ pc' = "done"
    /\ UNCHANGED <<call_vars, workbook_vars, directory, csv_files, combined_data>>

\* get_sheet_progress sorting the loaded history itself
GetSheetProgress_sorts_in_place ==
    /\ pc \in {"loaded", "done"}
    /\ \E sheet_name \in SheetUniverse :
          /\ query' = "get_sheet_progress " \o sheet_name
          /\ returned' = get_sheet_progress(combined_data, sheet_name)
    /\ combined_data' =
           IF ~combined_data.loaded THEN combined_data
           ELSE [combined_data EXCEPT
                    !.rows = SortValues(@, Ascending(UniqueTimestamps(@)))]
    /\ pc' = "done"
    /\ UNCHANGED <<call_vars, workbook_vars, directory, csv_files>>

GetSheetProgress ==
    /\ pc \in {"loaded", "done"}
    /\ \E sheet_name \in SheetUniverse :
          /\ query' = "get_sheet_progress " \o sheet_name
          /\ returned' = get_sheet_progress(combined_data, sheet_name)
    /\ pc' = "done"
    /\ UNCHANGED <<call_vars, workbook_vars, directory, csv_files, combined_data>>

GetLatestSnapshot ==
    /\ pc \in {"loaded", "done"}
    /\ query' = "get_latest_snapshot"
    /\ returned' = get_latest_snapshot(combined_data)
    /\ pc' = "done"
    /\ UNCHANGED <<call_vars, workbook_vars, directory, csv_files, combined_data>>

GenerateProgressReport ==
    /\ pc \in {"loaded", "done"}
    /\ query' = "generate_progress_report"
    /\ returned' = generate_progress_report(combined_data, csv_files)
    /\ pc' = "done"
    /\ UNCHANGED <<call_vars, workbook_vars, directory, csv_files, combined_data>>

NextHistory ==
    \/ LoadCsvFiles
    \/ GetOverallProgress
    \/ CompareFirstAndLast
    \/ GetSheetProgress
    \/ GetLatestSnapshot
    \/ GenerateProgressReport

SpecHistory == InitHistory /\ [][NextHistory]_vars

-----------------------------------------------------------------------------
(* Properties of the tracker, checked under SpecHistory *)

Aggregations == {"get_overall_progress", "compare_first_and_last", "generate_progress_report"}

\* a history was loaded and one of the three aggregations was called on it
Aggregated == pc = "done" /\ combined_data.loaded /\ query \in Aggregations

\* C18: the tracker reads the row schema save_to_csv writes: on every history made
\* of rows the analyzer wrote, get_overall_progress, compare_first_and_last and
\* generate_progress_report complete without failing on a missing field.
C18_SchemaConsumed == Aggregated => returned.kind # "raised"

\* the rows of the loaded history at a timestamp that have results
RowsWithResultsAt(t) ==
    SelectSeq(combined_data.rows, LAMBDA r : r.timestamp = t /\ r.has_results)

RECURSIVE SumOfRows(_, _)
SumOfRows(rows, field) ==
    IF rows = <<>> THEN 0 ELSE Head(rows)[field] + SumOfRows(Tail(rows), field)

\* C19: get_overall_progress returns, for each distinct timestamp of the loaded
\* history, one record whose pass, fail, not_available and total are the sums of
\* pass_count, fail_count, not_available_count and total_tests over the rows of that
\* timestamp with has_results true.
C19_OverallProgress ==
    (pc = "done" /\ combined_data.loaded /\ query = "get_overall_progress") =>
        /\ returned.kind = "frame"
        /\ Len(returned.rows) = Cardinality(UniqueTimestamps(combined_data.rows))
        /\ \A t \in UniqueTimestamps(combined_data.rows) :
               \E i \in 1..Len(returned.rows) :
                   LET record == returned.rows[i]
                       rows == RowsWithResultsAt(t)
                   IN /\ record.timestamp = t
                      /\ record.pass_count = SumOfRows(rows, "pass_count")
                      /\ record.fail_count = SumOfRows(rows, "fail_count")
                      /\ "not_available_count" \in DOMAIN record
                      /\ record.not_available_count = SumOfRows(rows, "not_available_count")
                      /\ record.total_tests = SumOfRows(rows, "total_tests")

\* pct, in hundredths, is count / total * 100 rounded to two decimals
IsPercentageOf(pct, count, total) ==
    LET exact == count * 10000
    IN 2 * (pct * total - exact) <= total /\ 2 * (exact - pct * total) <= total

\* the percentages of a record are 0 for a total of 0, else count / total * 100
PercentagesDefined(record, fields) ==
    \A f \in fields :
        LET pct == record[f[2]]
        IN /\ pct \in Nat
           /\ IF record.total_tests = 0 THEN pct = 0
              ELSE IsPercentageOf(pct, record[f[1]], record.total_tests)

\* the rows of the files, as save_to_csv wrote them
PersistedRows == UNION {{f.rows[i] : i \in 1..Len(f.rows)} : f \in directory}

\* the part of C20 about the rows save_to_csv writes
RowPercentagesDefined ==
    \A row \in PersistedRows :
        PercentagesDefined(row, {<<"pass_count", "pass_percentage">>,
                                 <<"fail_count", "fail_percentage">>,
                                 <<"not_available_count", "not_available_percentage">>})

\* C20: when the total of a persisted row, or of a timestamp in what
\* get_overall_progress returns, is 0, the percentages are 0 and nothing is divided
\* by zero or left undefined; otherwise each percentage is count / total * 100.
C20_ZeroTotal ==
    /\ RowPercentagesDefined
    /\ (pc = "done" /\ combined_data.loaded /\ query = "get_overall_progress") =>
           /\ returned.kind = "frame"
           /\ \A i \in 1..Len(returned.rows) :
                  /\ "not_available_percentage" \in DOMAIN returned.rows[i]
                  /\ PercentagesDefined(returned.rows[i],
                         {<<"pass_count", "pass_percentage">>,
                          <<"fail_count", "fail_percentage">>,
                          <<"not_available_count", "not_available_percentage">>})

\* a row with a total of 0 and one with a total of 2 are in the files
RowTotalsSeen ==
    /\ \E row \in PersistedRows : row.has_results /\ row.total_tests = 0
    /\ \E row \in PersistedRows : row.total_tests = 2 /\ row.pass_percentage = 5000

\* the sum of a column over the rows with results at a timestamp
SumAt(t, field) == SumOfRows(RowsWithResultsAt(t), field)

\* the signed difference of a column between the latest and the earliest timestamp
ChangeOf(field) ==
    SumAt(Max(UniqueTimestamps(combined_data.rows)), field)
        - SumAt(Min(UniqueTimestamps(combined_data.rows)), field)

\* the loaded history has at least two distinct timestamps
TwoTimestamps ==
    combined_data.loaded /\ Cardinality(UniqueTimestamps(combined_data.rows)) >= 2

\* C21: on a history with at least two distinct timestamps compare_first_and_last
\* reports, for each of pass, fail, not_available and total, the sum over the rows
\* with results at the latest timestamp minus the sum over the rows with results at
\* the earliest timestamp.
C21_FirstAndLast ==
    (pc = "done" /\ TwoTimestamps /\ query = "compare_first_and_last") =>
        /\ returned.kind = "dict"
        /\ returned.changes.pass_change = ChangeOf("pass_count")
        /\ returned.changes.fail_change = ChangeOf("fail_count")
        /\ \E name \in DOMAIN returned.changes :
               returned.changes[name] = ChangeOf("not_available_count")
        /\ returned.changes.total_change = ChangeOf("total_tests")

\* a call of get_sheet_progress, whatever its argument
SheetProgressCalls == {"get_sheet_progress " \o n : n \in SheetUniverse}

\* C22: compare_first_and_last returns None when no history is loaded or the loaded
\* history has fewer than two distinct timestamps, and on an unloaded history
\* get_overall_progress, get_sheet_progress and get_latest_snapshot return None and
\* generate_progress_report returns the text 'No data loaded'; none of them raises.
C22_InsufficientData ==
    /\ (pc = "done" /\ query = "compare_first_and_last" /\ ~TwoTimestamps) =>
           returned = ReturnNone
    /\ (pc = "done" /\ ~combined_data.loaded) =>
           /\ returned.kind # "raised"
           /\ query \in {"get_overall_progress", "get_latest_snapshot"}
                            \cup SheetProgressCalls =>
                  returned = ReturnNone
           /\ query = "generate_progress_report" =>
                  returned = [kind |-> "str", text |-> "No data loaded"]

\* a loaded history of one timestamp was compared
C22_Witness ==
    /\ pc = "done"
    /\ query = "compare_first_and_last"
    /\ combined_data.loaded
    /\ Cardinality(UniqueTimestamps(combined_data.rows)) = 1
    /\ returned = ReturnNone

\* the directory held no snapshot and a sheet's progress was asked for
C22_WitnessUnloaded ==
    /\ pc = "done"
    /\ directory = {}
    /\ ~combined_data.loaded
    /\ query \in SheetProgressCalls
    /\ returned = ReturnNone

\* the rows of the loaded history that a predicate selects, in the order of the history
RowsWhere(Keep(_)) == SelectSeq(combined_data.rows, Keep)

\* C23: get_latest_snapshot returns exactly the rows of the loaded history whose
\* timestamp is the maximum timestamp in it, rows without results included, and no
\* row of an earlier timestamp.
C23_LatestSnapshot ==
    (pc = "done" /\ combined_data.loaded /\ query = "get_latest_snapshot") =>
        /\ returned.kind = "frame"
        /\ returned.rows =
               RowsWhere(LAMBDA r : \A i \in 1..Len(combined_data.rows) :
                                        combined_data.rows[i].timestamp <= r.timestamp)
        /\ \A i \in 1..Len(returned.rows), j \in 1..Len(combined_data.rows) :
               returned.rows[i].timestamp >= combined_data.rows[j].timestamp

\* the latest of two snapshots was returned, with a row that has no results in it,
\* and the history holds earlier rows
C23_Witness ==
    /\ pc = "done"
    /\ query = "get_latest_snapshot"
    /\ TwoTimestamps
    /\ returned.kind = "frame"
    /\ \E i \in 1..Len(returned.rows) : ~returned.rows[i].has_results
    /\ Len(returned.rows) < Len(combined_data.rows)

\* how many times a row occurs in a sequence of rows
Occurrences(rows, r) == Cardinality({i \in 1..Len(rows) : rows[i] = r})

\* the snapshot files were loaded in an order other than that of their timestamps
LoadedOutOfOrder ==
    \E i, j \in 1..Len(combined_data.rows) :
        i < j /\ combined_data.rows[i].timestamp > combined_data.rows[j].timestamp

\* C24: get_sheet_progress(name) returns exactly the rows of the loaded history whose
\* sheet_name is name, each as often as the history holds it, ordered by
\* non-decreasing timestamp whatever the order the snapshot files were loaded in.
C24_SheetProgress ==
    \A name \in SheetUniverse :
        (pc = "done" /\ combined_data.loaded /\ query = "get_sheet_progress " \o name) =>
            /\ returned.kind = "frame"
            /\ \A i \in 1..Len(returned.rows) : returned.rows[i].sheet_name = name
            /\ \A i \in 1..Len(combined_data.rows) :
                   combined_data.rows[i].sheet_name = name =>
                       Occurrences(returned.rows, combined_data.rows[i])
                           = Occurrences(combined_data.rows, combined_data.rows[i])
            /\ \A i \in 1..Len(returned.rows) :
                   Occurrences(combined_data.rows, returned.rows[i]) > 0
            /\ \A i, j \in 1..Len(returned.rows) :
                   i < j => returned.rows[i].timestamp <= returned.rows[j].timestamp

\* a sheet's rows of two snapshots were returned from a history loaded latest first
C24_Witness ==
    /\ pc = "done"
    /\ query \in SheetProgressCalls
    /\ LoadedOutOfOrder
    /\ returned.kind = "frame"
    /\ Len(returned.rows) >= 2

\* the calls the claim names, and the two whose output it compares
ReadingCalls ==
    {"get_overall_progress", "get_latest_snapshot", "compare_first_and_last"}
        \cup SheetProgressCalls

-----------------------------------------------------------------------------
(* Runs saving into one directory: SpecSaves.  Each step is save_to_csv() of a
   run that has analysed its workbook, called without an output_path at some
   reading of the clock; the clock never goes back. *)

\* the second a snapshot file was written at, as its rows carry it
SecondOf(file) == to_datetime(file.rows[1].timestamp)

\* the second of the latest save so far, 0 before the first
LastSave == IF directory = {} THEN 0 ELSE Max({SecondOf(f) : f \in directory})

InitSaves ==
    /\ directory = {}
    /\ csv_files = <<>>
    /\ combined_data = NoData
    /\ query = ""
    /\ returned = NotCalled
    /\ pc = "saving"
    /\ IdleClassify
    /\ IdleLetters
    /\ IdleSheet
    /\ IdleDetect
    /\ IdleWorkbook

\* save_to_csv(): df.to_csv(output_path) creates the file or replaces the one of
\* that name
SaveRun ==
    /\ pc = "saving"
    /\ \E results \in HistoryRuns, now \in RunTimes :
          /\ now >= LastSave
          /\ LET file == CsvFile(FileName(now), now, results)
             IN /\ directory' = {f \in directory : f.name # file.name} \cup {file}
                /\ returned' = [kind |-> "str", text |-> file.name]
    /\ query' = "save_to_csv"
    /\ UNCHANGED <<call_vars, workbook_vars, csv_files, combined_data, pc>>

NextSaves == SaveRun

SpecSaves == InitSaves /\ [][NextSaves]_vars

-----------------------------------------------------------------------------
(* Properties of the saved snapshots, checked under SpecSaves *)

\* C26: persisted snapshots are append-only: whatever the order and the clock
\* readings of the saves, a snapshot file once written is still there, unchanged,
\* after every later save, and files written at different seconds have different
\* names.
C26_AppendOnly ==
    [][/\ \A f \in directory : f \in directory'
       /\ \A f, g \in directory' : SecondOf(f) # SecondOf(g) => f.name # g.name]_vars

-----------------------------------------------------------------------------
(* Normalisation of cell text, checked under Spec *)

\* str.upper() and str.lower() of a text, and the text with every letter's case
\* changed
RECURSIVE MapChars(_, _)
MapChars(Change(_), s) ==
    IF s = "" THEN "" ELSE Change(Chr(s, 1)) \o MapChars(Change, Rest(s))

SwapChar(c) == IF UpperChar(c) # c THEN UpperChar(c) ELSE LowerChar(c)

\* the texts that differ from a text only in the case of letters, in whitespace
\* around it, or in having one space where it has a run of whitespace
Renderings(text) ==
    {MapChars(UpperChar, text), MapChars(LowerChar, text), MapChars(SwapChar, text),
     " " \o text, text \o "\n", "\t " \o text \o " \n",
     IF strip(text) = text THEN re_sub_ws(text) ELSE text}

\* C27: classification is invariant under normalisation: a text and the text with
\* the case of its letters changed, with whitespace added before or after it, or
\* with every internal run of whitespace replaced by one space, are classified alike.
C27_NormalisationInvariant ==
    (pc = "done" /\ value.kind = "str") =>
        \A text \in Renderings(value.text) : _classify_value(Text(text)) = classification

-----------------------------------------------------------------------------
(* Properties of the rows save_to_csv writes, checked under SpecWorkbook *)

\* the rows save_to_csv wrote
WrittenRows == {csv_data[i] : i \in 1..Len(csv_data)}

\* pass_count + fail_count + not_available_count of a row
CountedTests(row) == row.pass_count + row.fail_count + row.not_available_count

\* C28: every row save_to_csv writes with has_results true has
\* total_tests = pass_count + fail_count + not_available_count and
\* pass_count + fail_count + not_available_count + invalid_count = total_rows, the
\* rows of sheets that combine two or more result columns included.
C28_RowCountsAddUp ==
    pc = "done" =>
        \A row \in WrittenRows :
            row.has_results =>
                /\ row.total_tests = CountedTests(row)
                /\ CountedTests(row) + row.invalid_count = row.total_rows

\* the sum of a column over a set of rows of different sheets
RECURSIVE SumOfSet(_, _)
SumOfSet(rows, field) ==
    IF rows = {} THEN 0
    ELSE LET row == CHOOSE r \in rows : TRUE
         IN row[field] + SumOfSet(rows \ {row}, field)

COUNT_FIELDS ==
    {"pass_count", "fail_count", "not_available_count", "invalid_count", "total_tests"}

\* C29: every row save_to_csv writes with has_results false has the status
\* 'no_results' or 'error' and pass_count, fail_count, not_available_count,
\* invalid_count and total_tests all 0, so each of these columns sums to the same
\* over all rows of the file as over its rows with results.
C29_NoResultRowsZero ==
    pc = "done" =>
        /\ \A row \in WrittenRows :
               ~row.has_results =>
                   /\ row.status \in {"no_results", "error"}
                   /\ \A field \in COUNT_FIELDS : row[field] = 0
        /\ \A field \in COUNT_FIELDS :
               SumOfSet(WrittenRows, field)
                   = SumOfSet({row \in WrittenRows : row.has_results}, field)

\* a file with a row of a sheet with results and a row of a sheet of two rows
\* without a result column
C29_Witness ==
    /\ pc = "done"
    /\ \E row \in WrittenRows : row.has_results /\ row.total_tests > 0
    /\ \E row \in WrittenRows :
           ~row.has_results /\ row.status = "no_results" /\ row.total_rows = 2

\* a file with a row of a sheet that could not be read
C29_WitnessError ==
    /\ pc = "done"
    /\ \E row \in WrittenRows : ~row.has_results /\ row.status = "error"

-----------------------------------------------------------------------------
(* Properties of the entries of analysis_results, checked under SpecWorkbook *)

SUMMARY_COUNTS ==
    {"pass_count", "fail_count", "not_available_count", "invalid_count", "total",
     "total_rows"}

\* an entry with results names its result columns and has the six counts; an entry
\* without results has no count at all
EntryShaped(result) ==
    IF result.has_results
    THEN /\ result.result_columns # <<>>
         /\ SUMMARY_COUNTS \subseteq DOMAIN result.summary
         /\ \A count \in SUMMARY_COUNTS : result.summary[count] \in Nat
    ELSE /\ Get(result, "summary", <<>>) = <<>>
         /\ Get(result, "column_summaries", <<>>) = <<>>

\* every entry made so far is there after the step, as it was
EntriesKept ==
    \A i \in 1..Len(analysis_results) :
        /\ i <= Len(analysis_results')
        /\ analysis_results'[i] = analysis_results[i]

\* C30: every sheet result with has_results true has a non-empty result_columns list
\* and a summary with the six counts, every sheet result with has_results false has
\* no counts, and an entry analyze_all_sheets has recorded is left unchanged by the
\* analysis of the later sheets of the run.
C30_EntriesShapedAndKept ==
    /\ [](\A i \in 1..Len(analysis_results) : EntryShaped(analysis_results[i].value))
    /\ [][EntriesKept]_vars

\* a sheet of two result columns was recorded, and after it a sheet without results
C30_Witness ==
    /\ pc = "analyzed"
    /\ Len(analysis_results) = 2
    /\ analysis_results[1].value.has_results
    /\ Len(analysis_results[1].value.result_columns) = 2
    /\ ~analysis_results[2].value.has_results

=============================================================================
